---- MODULE Spec2Model ----
(***************************************************************************)
(* Model of scripts/download_sfxengine_chess.py: the link extractor        *)
(* (extract_links), the downloader (download_file), the manifest writer    *)
(* (write_manifest) and the command driver (main).                         *)
(*                                                                         *)
(* Python strings are sequences of one-character strings, so that the two  *)
(* regular expressions, urljoin, the filename derivation and sorted() are  *)
(* computed on the characters as the code computes them.                   *)
(***************************************************************************)
EXTENDS Integers, Sequences, FiniteSets, TLC

VARIABLES
    pc,          \* position of main(): start, fetched, extracted, directory-ready,
                 \* downloading, manifest-written, skipped, done
    url,         \* args.url
    dry_run,     \* args.dry_run
    overwrite,   \* args.overwrite
    html,        \* text returned by fetch_html
    links,       \* list returned by extract_links
    idx,         \* position of the for loop of main() in links (next link to try)
    dirExists,   \* whether args.output exists on disk
    files,       \* audio files of args.output: name -> [by, complete]
    manifest,    \* args.output/manifest.json: absent, a previous one, or written
    downloaded,  \* the list `downloaded` of main()
    exitCode,    \* value returned by main(), -1 while it runs
    attempts,    \* history: one record per call of download_file
    hist,        \* history: the phases main() went through
    initial      \* history: the filesystem before the invocation

vars == <<pc, url, dry_run, overwrite, html, links, idx, dirExists, files,
          manifest, downloaded, exitCode, attempts, hist, initial>>

(***************************************************************************)
(* Bounds.                                                                 *)
(***************************************************************************)
\* largest number of markup fragments a page text is built from
MaxFrags == 2

(***************************************************************************)
(* Characters and strings.                                                 *)
(***************************************************************************)
\* the printable ASCII characters, in code point order (32 .. 126)
Ascii ==
  <<
    " ", "!", "\"", "#", "$", "%", "&", "'", "(", ")", "*", "+",
    ",", "-", ".", "/", "0", "1", "2", "3", "4", "5", "6", "7",
    "8", "9", ":", ";", "<", "=", ">", "?", "@", "A", "B", "C",
    "D", "E", "F", "G", "H", "I", "J", "K", "L", "M", "N", "O",
    "P", "Q", "R", "S", "T", "U", "V", "W", "X", "Y", "Z", "[",
    "\\", "]", "^", "_", "(backtick)", "a", "b", "c", "d", "e", "f", "g",
    "h", "i", "j", "k", "l", "m", "n", "o", "p", "q", "r", "s",
    "t", "u", "v", "w", "x", "y", "z", "{", "|", "}", "~" >>

\* code point of a character
ord(c) == 31 + (CHOOSE i \in 1..Len(Ascii) : Ascii[i] = c)

\* str.lower() on one character; also the case folding of re.IGNORECASE
lower(c) == IF ord(c) \in 65..90 THEN Ascii[ord(c) + 1] ELSE c

str_lower(s) == [i \in 1..Len(s) |-> lower(s[i])]

\* the order < of Python on str: lexicographic on code points
StrLess(a, b) ==
    \E k \in 1..(Len(a) + 1) :
        /\ k <= Len(b)
        /\ \A j \in 1..(k - 1) : a[j] = b[j]
        /\ \/ k > Len(a)
           \/ ord(a[k]) < ord(b[k])

RECURSIVE sorted(_)
\* sorted(found) on a set of str
sorted(S) ==
    IF S = {} THEN <<>>
    ELSE LET m == CHOOSE x \in S : \A y \in S \ {x} : StrLess(x, y)
         IN  <<m>> \o sorted(S \ {m})

\* the elements of a list
Range(q) == {q[i] : i \in 1..Len(q)}

\* s.endswith(t)
endswith(s, t) ==
    /\ Len(t) <= Len(s)
    /\ SubSeq(s, Len(s) - Len(t) + 1, Len(s)) = t

\* s.startswith(t)
startswith(s, t) == Len(t) <= Len(s) /\ SubSeq(s, 1, Len(t)) = t

Max(S) == CHOOSE x \in S : \A y \in S : y <= x

(***************************************************************************)
(* The two regular expressions of extract_links.                           *)
(***************************************************************************)
AUDIO_EXTENSIONS ==
    << <<".", "m", "p", "3">>, <<".", "w", "a", "v">>, <<".", "o", "g", "g">>, <<".", "f", "l", "a", "c">>, <<".", "a", "a", "c">>, <<".", "m", "4", "a">> >>

\* attr_pattern: (?:href|src|data-url|data-href|data-src|data-mp3|data-ogg)
attr_pattern ==
    << <<"h", "r", "e", "f">>, <<"s", "r", "c">>, <<"d", "a", "t", "a", "-", "u", "r", "l">>, <<"d", "a", "t", "a", "-", "h", "r", "e", "f">>, <<"d", "a", "t", "a", "-", "s", "r", "c">>,
       <<"d", "a", "t", "a", "-", "m", "p", "3">>, <<"d", "a", "t", "a", "-", "o", "g", "g">> >>

\* the characters ['\"] and the whitespace characters of \s
Quotes == {"'", "\""}
Whitespace == {" ", "\t", "\n"}

\* a literal of a pattern compiled with re.IGNORECASE matches s at i
LitAt(s, i, lit) ==
    /\ i >= 1
    /\ i + Len(lit) - 1 <= Len(s)
    /\ \A k \in 1..Len(lit) : lower(s[i + k - 1]) = lit[k]

RECURSIVE RunEnd(_, _, _)
\* a greedy negated class [^...]+ started at i stops at RunEnd (exclusive)
RunEnd(s, i, stop) ==
    IF i > Len(s) \/ s[i] \in stop THEN i ELSE RunEnd(s, i + 1, stop)

RECURSIVE SkipS(_, _)
\* `s*` : the letter s, zero or more times (greedy, IGNORECASE)
SkipS(s, i) ==
    IF i <= Len(s) /\ lower(s[i]) = "s" THEN SkipS(s, i + 1) ELSE i

\* \.(?:mp3|wav|ogg|flac|aac|m4a) at k: the length matched, 0 if none
ExtAt(s, k) ==
    LET js == {j \in 1..Len(AUDIO_EXTENSIONS) : LitAt(s, k, AUDIO_EXTENSIONS[j])}
    IN  IF js = {} THEN 0 ELSE Len(AUDIO_EXTENSIONS[CHOOSE j \in js : TRUE])

\* The separator of `combined`.  The pattern is written in an rf-string as
\* \\s*=\\s*, which the regex compiler reads as: a literal backslash, the
\* letter s zero or more times, `=`, a literal backslash, the letter s zero
\* or more times.  The index after the separator, 0 if it does not match.
separator(s, a) ==
    IF ~(a <= Len(s) /\ s[a] = "\\") THEN 0
    ELSE LET e == SkipS(s, a + 1)
         IN  IF ~(e + 1 <= Len(s) /\ s[e] = "=" /\ s[e + 1] = "\\") THEN 0
             ELSE SkipS(s, e + 2)

\* combined.match at p: [end |-> index after the match (0: no match),
\*                       group |-> group 1]
combined_match(s, p) ==
    LET js == {j \in 1..Len(attr_pattern) : LitAt(s, p, attr_pattern[j])}
        a  == p + Len(attr_pattern[CHOOSE j \in js : TRUE])
        q  == separator(s, a)
        g  == q + 1
        r  == RunEnd(s, g, Quotes)
        \* [^'\"]+ backtracks to an extension that is followed by the closing
        \* quote, or by ?query and the closing quote
        ks == {k \in (g + 1)..(r - 1) :
                 /\ ExtAt(s, k) > 0
                 /\ \/ k + ExtAt(s, k) = r
                    \/ s[k + ExtAt(s, k)] = "?"}
    IN  IF /\ js # {}
           /\ q # 0
           /\ q <= Len(s)
           /\ s[q] \in Quotes
           /\ r <= Len(s)
           /\ ks # {}
        THEN [end |-> r + 1, group |-> SubSeq(s, g, r - 1)]
        ELSE [end |-> 0, group |-> <<>>]

RECURSIVE combined_findall(_, _)
\* combined.findall(html): group 1 of the non-overlapping matches, left to right
combined_findall(s, p) ==
    IF p > Len(s) THEN <<>>
    ELSE LET m == combined_match(s, p)
         IN  IF m.end = 0 THEN combined_findall(s, p + 1)
             ELSE <<m.group>> \o combined_findall(s, m.end)

\* absolute.match at p: the index after the match, 0 if there is none
absolute_match(s, p) ==
    LET a  == IF LitAt(s, p, <<"h", "t", "t", "p", "s", ":", "/", "/">>) THEN p + 8
              ELSE IF LitAt(s, p, <<"h", "t", "t", "p", ":", "/", "/">>) THEN p + 7 ELSE 0
        stop == Quotes \cup Whitespace
        r  == RunEnd(s, a, stop)
        ks == {k \in (a + 1)..(r - 1) : ExtAt(s, k) > 0}
        k  == Max(ks)
        e  == k + ExtAt(s, k)
        qe == RunEnd(s, e + 1, stop)
    IN  IF a = 0 \/ ks = {} THEN 0
        ELSE IF e <= Len(s) /\ s[e] = "?" /\ qe > e + 1 THEN qe ELSE e

RECURSIVE absolute_findall(_, _)
\* absolute.findall(html): the non-overlapping matches, left to right
absolute_findall(s, p) ==
    IF p > Len(s) THEN <<>>
    ELSE LET e == absolute_match(s, p)
         IN  IF e = 0 THEN absolute_findall(s, p + 1)
             ELSE <<SubSeq(s, p, e - 1)>> \o absolute_findall(s, e)

(***************************************************************************)
(* urllib.parse.urljoin and urlparse, for http(s) URLs without dot         *)
(* segments, parameters or fragments.                                      *)
(***************************************************************************)
HasScheme(s) == startswith(s, <<"h", "t", "t", "p", "s", ":", "/", "/">>) \/ startswith(s, <<"h", "t", "t", "p", ":", "/", "/">>)

\* index of the first "/" after scheme://netloc, Len+1 if the path is empty
PathStart(u) ==
    LET a == IF startswith(u, <<"h", "t", "t", "p", "s", ":", "/", "/">>) THEN 9 ELSE 8
    IN  RunEnd(u, a, {"/", "?", "#"})

\* urlparse(u).path
url_path(u) == SubSeq(u, PathStart(u), RunEnd(u, PathStart(u), {"?", "#"}) - 1)

\* scheme://netloc of u
url_origin(u) == SubSeq(u, 1, PathStart(u) - 1)

\* index of the last "/" of s, 0 if none
LastSlash(s) ==
    LET is == {i \in 1..Len(s) : s[i] = "/"} IN IF is = {} THEN 0 ELSE Max(is)

urljoin(base, ref) ==
    IF HasScheme(ref) THEN ref
    ELSE IF ref[1] = "/" THEN url_origin(base) \o ref
    ELSE LET bp == url_path(base)
         IN  url_origin(base)
               \o (IF bp = <<>> THEN <<"/">> ELSE SubSeq(bp, 1, LastSlash(bp)))
               \o ref

(***************************************************************************)
(* extract_links                                                           *)
(***************************************************************************)
\* the loops of lines 45-51: every match of both patterns, resolved
resolved_matches(text, base_url) ==
    [i \in 1..Len(combined_findall(text, 1)) |->
        urljoin(base_url, combined_findall(text, 1)[i])]
    \o
    [i \in 1..Len(absolute_findall(text, 1)) |->
        urljoin(base_url, absolute_findall(text, 1)[i])]

\* extract_links without the set and the sort: the matches as they come
extract_links_unsorted(text, base_url) == resolved_matches(text, base_url)

extract_links(text, base_url) ==
    LET found == Range(resolved_matches(text, base_url))
    IN  sorted(found)

(***************************************************************************)
(* download_file: the filename and the destination.                        *)
(***************************************************************************)
RECURSIVE rstrip_slash(_)
\* Path(...) drops the trailing slashes of a path
rstrip_slash(p) ==
    IF p # <<>> /\ p[Len(p)] = "/" THEN rstrip_slash(SubSeq(p, 1, Len(p) - 1))
    ELSE p

\* Path(p).name: the last component of the path
path_name(p) ==
    LET q == rstrip_slash(p) IN SubSeq(q, LastSlash(q) + 1, Len(q))

\* index of the last "." of a name, 0 if none
LastDot(n) ==
    LET is == {i \in 1..Len(n) : n[i] = "."} IN IF is = {} THEN 0 ELSE Max(is)

\* Path.suffix: from the last dot, unless the dot is first or last
path_suffix(n) ==
    IF 1 < LastDot(n) /\ LastDot(n) < Len(n) THEN SubSeq(n, LastDot(n), Len(n))
    ELSE <<>>

\* Path.stem: the name without its suffix
path_stem(n) == SubSeq(n, 1, Len(n) - Len(path_suffix(n)))

Digits == <<"0", "1", "2", "3", "4", "5", "6", "7", "8", "9">>

RECURSIVE str_int(_)
\* the decimal digits of counter in f"{stem}-{counter}{suffix}"
str_int(n) ==
    IF n < 10 THEN <<Digits[n + 1]>>
    ELSE str_int(n \div 10) \o <<Digits[(n % 10) + 1]>>

\* lines 61-64: the filename a link is stored under
derive_filename(link) ==
    LET name == path_name(url_path(link))
        filename == IF name = <<>> THEN <<"a", "u", "d", "i", "o">> ELSE name
    IN  IF \E j \in 1..Len(AUDIO_EXTENSIONS) :
               endswith(str_lower(filename), AUDIO_EXTENSIONS[j])
        THEN filename
        ELSE filename \o <<".", "m", "p", "3">>

\* f"{stem}-{counter}{suffix}"
numbered(stem, counter, suffix) == stem \o <<"-">> \o str_int(counter) \o suffix

RECURSIVE while_exists(_, _, _, _, _)
\* the loop of lines 71-73; existing: the names destination.exists() is true of
while_exists(existing, stem, suffix, counter, destination) ==
    IF destination \in existing
    THEN while_exists(existing, stem, suffix, counter + 1,
                      numbered(stem, counter, suffix))
    ELSE destination

\* lines 66-73 without the test of line 67: the derived name, whatever exists
choose_destination_no_check(existing, filename, ow) == filename

\* lines 66-73: the name download_file opens for writing
choose_destination(existing, filename, ow) ==
    IF filename \in existing /\ ~ow
    THEN while_exists(existing, path_stem(filename), path_suffix(filename),
                      1, filename)
    ELSE filename

(***************************************************************************)
(* The filesystem and the inputs of an invocation.                         *)
(***************************************************************************)
\* args.output, and a file of it
OUTPUT_DIR == "output"
PathIn(dir, name) == [parent |-> dir, name |-> name]

\* file_path.relative_to(dir)
relative_to(path, dir) == IF path.parent = dir THEN path.name ELSE <<"?">>

\* a file that was in args.output before the invocation
OldFile == [by |-> 0, complete |-> TRUE]

\* files that may be in args.output before the invocation
PreNames == { <<"b", ".", "m", "p", "3">>, <<"b", "-", "1", ".", "m", "p", "3">> }

InitialFilesystems ==
    {[dirExists |-> FALSE, files |-> <<>>, manifest |-> [kind |-> "absent"]]}
    \cup
    {[dirExists |-> TRUE, files |-> [n \in S |-> OldFile], manifest |-> m] :
        S \in SUBSET PreNames, m \in {[kind |-> "absent"], [kind |-> "previous"]}}

\* page URLs given as --url
Urls == { <<"h", "t", "t", "p", "s", ":", "/", "/", "x", ".", "c", "o", "m", "/", "s", "f", "x", "/">>, <<"h", "t", "t", "p", "s", ":", "/", "/", "x", ".", "c", "o", "m", "/", "f", "r", "/", "c", "h", "e", "s", "s">> }

\* pieces of markup a page text is made of
fHref   == <<"<", "a", " ", "h", "r", "e", "f", "=", "\"", "m", "o", "v", "e", ".", "m", "p", "3", "\"", ">">>
fEsc    == <<"h", "r", "e", "f", "\\", "=", "\\", "\"", "b", ".", "m", "p", "3", "\"">>
fEscAbs == <<"s", "r", "c", "\\", "s", "=", "\\", "s", "'", "h", "t", "t", "p", "s", ":", "/", "/", "y", ".", "o", "r", "g", "/", "b", ".", "m", "p", "3", "?", "v", "=", "1", "'">>
fBare   == <<" ", "h", "t", "t", "p", "s", ":", "/", "/", "x", ".", "c", "o", "m", "/", "s", "f", "x", "/", "b", ".", "m", "p", "3", " ">>
fUpper  == <<"h", "t", "t", "p", "s", ":", "/", "/", "y", ".", "o", "r", "g", "/", "A", ".", "M", "P", "3">>
fGet    == <<"h", "t", "t", "p", "s", ":", "/", "/", "y", ".", "o", "r", "g", "/", "g", "e", "t", "?", "f", "=", "a", ".", "w", "a", "v", " ">>
fRoot   == <<"d", "a", "t", "a", "-", "s", "r", "c", "\\", "=", "\\", "\"", "/", "s", "n", "d", "/", "b", ".", "o", "g", "g", "\"">>
fNone   == <<"<", "p", ">", "c", "h", "e", "s", "s", "<", "/", "p", ">">>

Fragments == {fHref, fEsc, fEscAbs, fBare, fUpper, fGet, fRoot, fNone}

RECURSIVE Concats(_)
\* the texts made of exactly n fragments
Concats(n) ==
    IF n = 0 THEN {<<>>}
    ELSE {f \o t : f \in Fragments, t \in Concats(n - 1)}

\* the page texts extract_links is applied to
PageTexts == UNION {Concats(n) : n \in 0..MaxFrags}

\* the pages served to main()
MainPages ==
    { fNone,
      fHref,
      fGet \o fEsc,
      fEsc \o fEscAbs,
      fEsc \o fEscAbs \o <<" ", "h", "t", "t", "p", ":", "/", "/", "z", ".", "n", "e", "t", "/", "b", ".", "m", "p", "3", " ">> }

(***************************************************************************)
(* write_manifest                                                          *)
(***************************************************************************)
\* lines 82-96: the data written to manifest.json
write_manifest(manifest_path, source_url, files_list) ==
    [source_page |-> source_url,
     file_count  |-> Len(files_list),
     files |-> [i \in 1..Len(files_list) |->
                  [filename      |-> files_list[i].name,
                   relative_path |-> relative_to(files_list[i], manifest_path.parent),
                   source_url    |-> source_url]]]

(***************************************************************************)
(* main                                                                    *)
(***************************************************************************)
\* main() moves to phase p
Go(p) == pc' = p /\ hist' = Append(hist, p)

Init ==
    /\ pc = "start"
    /\ url \in Urls
    /\ dry_run \in BOOLEAN
    /\ overwrite \in BOOLEAN
    /\ html = <<>>
    /\ links = <<>>
    /\ idx = 1
    /\ initial \in InitialFilesystems
    /\ dirExists = initial.dirExists
    /\ files = initial.files
    /\ manifest = initial.manifest
    /\ downloaded = <<>>
    /\ exitCode = -1
    /\ attempts = <<>>
    /\ hist = <<"start">>

\* lines 120-121: fetch_html returns the page text
Fetch ==
    /\ pc = "start"
    /\ \E text \in MainPages : html' = text
    /\ Go("fetched")
    /\ UNCHANGED <<url, dry_run, overwrite, links, idx, dirExists, files,
                   manifest, downloaded, exitCode, attempts, initial>>

\* lines 122-124 returning 0
FetchFail_exit0 ==
    /\ pc = "start"
    /\ exitCode' = 0
    /\ Go("done")
    /\ UNCHANGED <<url, dry_run, overwrite, html, links, idx, dirExists, files,
                   manifest, downloaded, attempts, initial>>

\* lines 120-124: fetch_html raises HTTPError or URLError
FetchFail ==
    /\ pc = "start"
    /\ exitCode' = 1
    /\ Go("done")
    /\ UNCHANGED <<url, dry_run, overwrite, html, links, idx, dirExists, files,
                   manifest, downloaded, attempts, initial>>

\* line 126
Extract ==
    /\ pc = "fetched"
    /\ links' = extract_links(html, url)
    /\ Go("extracted")
    /\ UNCHANGED <<url, dry_run, overwrite, html, idx, dirExists, files,
                   manifest, downloaded, exitCode, attempts, initial>>

\* lines 127-129
NoLinks ==
    /\ pc = "extracted"
    /\ links = <<>>
    /\ exitCode' = 0
    /\ Go("done")
    /\ UNCHANGED <<url, dry_run, overwrite, html, links, idx, dirExists, files,
                   manifest, downloaded, attempts, initial>>

\* lines 131-136
DryRunReturn ==
    /\ pc = "extracted"
    /\ links # <<>>
    /\ dry_run
    /\ exitCode' = 0
    /\ Go("done")
    /\ UNCHANGED <<url, dry_run, overwrite, html, links, idx, dirExists, files,
                   manifest, downloaded, attempts, initial>>

\* lines 138-139 without the call of ensure_directory
EnsureDirectory_no_mkdir ==
    /\ pc = "extracted"
    /\ links # <<>>
    /\ ~dry_run
    /\ downloaded' = <<>>
    /\ Go("directory-ready")
    /\ UNCHANGED <<url, dry_run, overwrite, html, links, idx, dirExists, files,
                   manifest, exitCode, attempts, initial>>

\* lines 138-139 reached without the test of line 135
EnsureDirectory_any_mode ==
    /\ pc = "extracted"
    /\ links # <<>>
    /\ dirExists' = TRUE
    /\ downloaded' = <<>>
    /\ Go("directory-ready")
    /\ UNCHANGED <<url, dry_run, overwrite, html, links, idx, files,
                   manifest, exitCode, attempts, initial>>

\* lines 138-139: ensure_directory(args.output); downloaded = []
EnsureDirectory ==
    /\ pc = "extracted"
    /\ links # <<>>
    /\ ~dry_run
    /\ dirExists' = TRUE
    /\ downloaded' = <<>>
    /\ Go("directory-ready")
    /\ UNCHANGED <<url, dry_run, overwrite, html, links, idx, files,
                   manifest, exitCode, attempts, initial>>

\* the for loop of line 141 has a link left
InLoop ==
    /\ pc \in {"directory-ready", "downloading"}
    /\ idx <= Len(links)

\* download_file(link, args.output, overwrite) with the given outcome:
\*   "ok"       the body was copied and the path is returned
\*   "urlopen"  urlopen raised (HTTPError, URLError) before the file was opened
\*   "open"     destination.open("wb") raised OSError
\*   "copy"     copyfileobj raised OSError after the file was opened
download_file(link, outcome) ==
    LET dest == choose_destination(DOMAIN files, derive_filename(link), overwrite)
    IN  /\ files' = IF outcome \in {"ok", "copy"}
                    THEN (dest :> [by |-> idx, complete |-> (outcome = "ok")]) @@ files
                    ELSE files
        /\ attempts' = Append(attempts,
                              [link |-> link, dest |-> dest, outcome |-> outcome,
                               filename |-> derive_filename(link)])

\* lines 144-146 ending the loop instead of continuing
DownloadFails_break ==
    /\ InLoop
    /\ \E outcome \in {"urlopen", "open", "copy"} :
           download_file(links[idx], outcome)
    /\ idx' = Len(links) + 1
    /\ Go("downloading")
    /\ UNCHANGED <<url, dry_run, overwrite, html, links, dirExists,
                   manifest, downloaded, exitCode, initial>>

\* lines 142-146: download_file raises, the error is printed, continue
DownloadFails ==
    /\ InLoop
    /\ \E outcome \in {"urlopen", "open", "copy"} :
           download_file(links[idx], outcome)
    /\ idx' = idx + 1
    /\ Go("downloading")
    /\ UNCHANGED <<url, dry_run, overwrite, html, links, dirExists,
                   manifest, downloaded, exitCode, initial>>

\* lines 142-148: download_file returns the destination
DownloadSucceeds ==
    /\ InLoop
    /\ download_file(links[idx], "ok")
    /\ downloaded' = Append(downloaded,
            PathIn(OUTPUT_DIR,
                   choose_destination(DOMAIN files, derive_filename(links[idx]),
                                      overwrite)))
    /\ idx' = idx + 1
    /\ Go("downloading")
    /\ UNCHANGED <<url, dry_run, overwrite, html, links, dirExists,
                   manifest, exitCode, initial>>

\* the for loop of line 141 is over
LoopDone ==
    /\ pc = "downloading"
    /\ idx > Len(links)

\* lines 151-153 reached without the test of line 150
WriteManifest_always ==
    /\ LoopDone
    /\ manifest' = [kind |-> "written",
                    data |-> write_manifest(PathIn(OUTPUT_DIR, <<"m", "a", "n", "i", "f", "e", "s", "t", ".", "j", "s", "o", "n">>),
                                            url, downloaded)]
    /\ Go("manifest-written")
    /\ UNCHANGED <<url, dry_run, overwrite, html, links, idx, dirExists, files,
                   downloaded, exitCode, attempts, initial>>

\* lines 150-153
WriteManifest ==
    /\ LoopDone
    /\ downloaded # <<>>
    /\ manifest' = [kind |-> "written",
                    data |-> write_manifest(PathIn(OUTPUT_DIR, <<"m", "a", "n", "i", "f", "e", "s", "t", ".", "j", "s", "o", "n">>),
                                            url, downloaded)]
    /\ Go("manifest-written")
    /\ UNCHANGED <<url, dry_run, overwrite, html, links, idx, dirExists, files,
                   downloaded, exitCode, attempts, initial>>

\* lines 150, 154-155
SkipManifest ==
    /\ LoopDone
    /\ downloaded = <<>>
    /\ Go("skipped")
    /\ UNCHANGED <<url, dry_run, overwrite, html, links, idx, dirExists, files,
                   manifest, downloaded, exitCode, attempts, initial>>

\* line 157
Return ==
    /\ pc \in {"manifest-written", "skipped"}
    /\ exitCode' = 0
    /\ Go("done")
    /\ UNCHANGED <<url, dry_run, overwrite, html, links, idx, dirExists, files,
                   manifest, downloaded, attempts, initial>>

Next ==
    \/ Fetch
    \/ FetchFail
    \/ Extract
    \/ NoLinks
    \/ DryRunReturn
    \/ EnsureDirectory
    \/ DownloadSucceeds
    \/ DownloadFails
    \/ WriteManifest
    \/ SkipManifest
    \/ Return

Spec == Init /\ [][Next]_vars

(***************************************************************************)
(* extract_links on its own: any page text, any page URL.                  *)
(***************************************************************************)
InitExtract ==
    /\ pc = "fetched"
    /\ url \in Urls
    /\ html \in PageTexts
    /\ dry_run = FALSE
    /\ overwrite = FALSE
    /\ links = <<>>
    /\ idx = 1
    /\ initial = [dirExists |-> FALSE, files |-> <<>>, manifest |-> [kind |-> "absent"]]
    /\ dirExists = FALSE
    /\ files = <<>>
    /\ manifest = [kind |-> "absent"]
    /\ downloaded = <<>>
    /\ exitCode = -1
    /\ attempts = <<>>
    /\ hist = <<"start", "fetched">>

NextExtract == Extract

SpecExtract == InitExtract /\ [][NextExtract]_vars

(***************************************************************************)
(* Vocabulary of the properties.                                           *)
(***************************************************************************)
\* main() has been in phase p
Visited(p) == p \in Range(hist)

\* the initial page fetch failed: main() ended without a page text
FetchFailed == pc = "done" /\ ~Visited("fetched")

\* the output directory, its audio files and its manifest are as before
FilesystemUnchanged ==
    /\ dirExists = initial.dirExists
    /\ files = initial.files
    /\ manifest = initial.manifest

\* the calls of download_file that returned
Succeeded == {i \in 1..Len(attempts) : attempts[i].outcome = "ok"}
OkAttempts == SelectSeq(attempts, LAMBDA a : a.outcome = "ok")

\* the calls of download_file that raised
Failed == {i \in 1..Len(attempts) : attempts[i].outcome # "ok"}

\* the calls of download_file that opened their destination for writing
Opened == {i \in 1..Len(attempts) : attempts[i].outcome \in {"ok", "copy"}}

\* the for loop of main() is over
AfterLoop == pc \in {"manifest-written", "skipped"}
                \/ (pc = "done" /\ Visited("downloading"))

\* the call of download_file a step made, when it made one
Called == Len(attempts') = Len(attempts) + 1
LastCall == attempts'[Len(attempts')]

\* position of a phase in the order of the state machine
Rank(p) ==
    CASE p = "start"            -> 0
      [] p = "fetched"          -> 1
      [] p = "extracted"        -> 2
      [] p = "directory-ready"  -> 3
      [] p = "downloading"      -> 4
      [] p = "manifest-written" -> 5
      [] p = "skipped"          -> 5
      [] p = "done"             -> 6

\* the phases were entered in the order of the state machine, none twice
\* but the downloading phase, which is entered once per link
LinearOrder ==
    \A i \in 1..(Len(hist) - 1) :
        \/ Rank(hist[i]) < Rank(hist[i + 1])
        \/ hist[i] = "downloading" /\ hist[i + 1] = "downloading"

(***************************************************************************)
(* C1: extract_links resolves a relative reference found in a quoted       *)
(* attribute value against the page URL: the page text <a href="move.mp3"> *)
(* on page https://x.com/sfx/ yields exactly                               *)
(* [https://x.com/sfx/move.mp3], and whenever the text holds that          *)
(* attribute the resolved URL is in the output.                            *)
(***************************************************************************)
\* text contains part
Contains(text, part) ==
    \E i \in 1..(Len(text) - Len(part) + 1) :
        SubSeq(text, i, i + Len(part) - 1) = part

C1_RelativeAttributeResolved ==
    pc = "extracted" =>
        /\ (html = fHref /\ url = <<"h", "t", "t", "p", "s", ":", "/", "/", "x", ".", "c", "o", "m", "/", "s", "f", "x", "/">>)
              => links = << <<"h", "t", "t", "p", "s", ":", "/", "/", "x", ".", "c", "o", "m", "/", "s", "f", "x", "/", "m", "o", "v", "e", ".", "m", "p", "3">> >>
        /\ Contains(html, fHref)
              => urljoin(url, <<"m", "o", "v", "e", ".", "m", "p", "3">>) \in Range(links)

(***************************************************************************)
(* C2: every file the downloader created or wrote in the output directory  *)
(* corresponds to exactly one successfully completed transfer: no file is  *)
(* left by a failed transfer, none is the target of two successful ones.   *)
(***************************************************************************)
C2_FilesMatchTransfers ==
    \A n \in DOMAIN files :
        files[n].by # 0 =>
            /\ files[n].complete
            /\ Cardinality({i \in Succeeded : attempts[i].dest = n}) = 1

(***************************************************************************)
(* C3: with overwrite off, download_file never opens for writing a path    *)
(* that exists: a taken name is replaced by the first unused candidate     *)
(* stem-1.ext, stem-2.ext, ...; every file that existed before the call    *)
(* keeps its contents; two downloads deriving the same name give two       *)
(* distinct files, the second suffixed -1.                                 *)
(***************************************************************************)
\* dest is filename when that is free, else the first free stem-k.ext
FirstUnused(dest, filename, existing) ==
    IF filename \notin existing THEN dest = filename
    ELSE \E k \in 1..(Cardinality(existing) + 1) :
            /\ dest = numbered(path_stem(filename), k, path_suffix(filename))
            /\ dest \notin existing
            /\ \A j \in 1..(k - 1) :
                   numbered(path_stem(filename), j, path_suffix(filename))
                       \in existing

C3_CallKeepsExistingFiles ==
    (~overwrite /\ Called) =>
        /\ LastCall.dest \notin DOMAIN files
        /\ FirstUnused(LastCall.dest, LastCall.filename, DOMAIN files)
        /\ \A n \in DOMAIN files : n \in DOMAIN files' /\ files'[n] = files[n]

C3_SameNameDistinctFiles ==
    ~overwrite =>
        \A i, j \in Opened :
            (i < j /\ attempts[i].filename = attempts[j].filename) =>
                /\ attempts[i].dest # attempts[j].dest
                /\ LET f  == attempts[i].filename
                       f1 == numbered(path_stem(f), 1, path_suffix(f))
                   IN  (/\ {f, f1} \cap DOMAIN initial.files = {}
                        /\ \A k \in Opened :
                              (k < j /\ attempts[k].filename = f) => k = i)
                       => /\ attempts[i].dest = f
                          /\ attempts[j].dest = f1

C3_NoSilentOverwrite ==
    [] C3_SameNameDistinctFiles /\ [][C3_CallKeepsExistingFiles]_vars

\* two transfers of the same name succeeded, the second was stored as stem-1
C3_Witness ==
    /\ ~overwrite
    /\ \E i, j \in Succeeded :
          /\ i < j
          /\ attempts[i].filename = attempts[j].filename
          /\ attempts[i].dest = attempts[i].filename
          /\ attempts[j].dest = numbered(path_stem(attempts[i].filename), 1,
                                         path_suffix(attempts[i].filename))
          /\ attempts[j].dest \in DOMAIN files

(***************************************************************************)
(* C4: a failed transfer does not abort the batch: the driver goes on with *)
(* every remaining link in order, the failed link has no manifest entry,   *)
(* and the exit status stays 0 however many downloads failed.              *)
(***************************************************************************)
C4_FailureContinues ==
    (Called /\ LastCall.outcome # "ok") =>
        /\ pc' = "downloading"
        /\ idx' = idx + 1
        /\ downloaded' = downloaded
        /\ exitCode' = exitCode
        /\ LastCall.link = links[idx]

C4_AllLinksAttempted ==
    /\ AfterLoop =>
          /\ Len(attempts) = Len(links)
          /\ \A i \in 1..Len(links) : attempts[i].link = links[i]
    /\ Visited("manifest-written") =>
          /\ manifest.data.file_count = Cardinality(Succeeded)
          /\ Len(manifest.data.files) = Len(OkAttempts)
          /\ \A i \in 1..Len(OkAttempts) :
                 manifest.data.files[i].filename = OkAttempts[i].dest
    /\ (pc = "done" /\ Visited("downloading")) => exitCode = 0

C4_FailureDoesNotAbort ==
    [] C4_AllLinksAttempted /\ [][C4_FailureContinues]_vars

\* a run that ended after a failed transfer followed by a successful one
C4_Witness ==
    /\ pc = "done"
    /\ exitCode = 0
    /\ \E i \in Failed : \E j \in Succeeded : i < j

(***************************************************************************)
(* C5: the files list of the manifest holds one (filename, relative_path,  *)
(* source_url) triple per successfully downloaded file, in download order, *)
(* file_count is the number of triples, and each source_url is the URL the *)
(* file was downloaded from.                                               *)
(***************************************************************************)
C5_ManifestTriples ==
    Visited("manifest-written") =>
        /\ manifest.data.file_count = Len(manifest.data.files)
        /\ Len(manifest.data.files) = Len(OkAttempts)
        /\ \A i \in 1..Len(OkAttempts) :
              /\ manifest.data.files[i].filename = OkAttempts[i].dest
              /\ manifest.data.files[i].relative_path = OkAttempts[i].dest
              /\ manifest.data.files[i].source_url = OkAttempts[i].link

(***************************************************************************)
(* C6: in dry-run mode the invocation never creates the output directory,  *)
(* never calls the downloader and never writes a manifest; the filesystem  *)
(* is left unchanged.                                                      *)
(***************************************************************************)
C6_DryRunNoEffect ==
    dry_run =>
        /\ FilesystemUnchanged
        /\ attempts = <<>>
        /\ ~Visited("directory-ready")
        /\ ~Visited("downloading")
        /\ ~Visited("manifest-written")

\* a dry run that found links and ended, the output directory still absent
C6_Witness ==
    /\ dry_run
    /\ pc = "done"
    /\ links # <<>>
    /\ ~initial.dirExists
    /\ ~dirExists

(***************************************************************************)
(* C7: when the initial page fetch fails the invocation returns 1 without  *)
(* running the extractor, creating the directory, downloading or writing a *)
(* manifest; every other run returns 0.                                    *)
(***************************************************************************)
C7_ExitCodes ==
    /\ FetchFailed =>
          /\ exitCode = 1
          /\ ~Visited("extracted")
          /\ links = <<>>
          /\ FilesystemUnchanged
          /\ attempts = <<>>
    /\ (pc = "done" /\ Visited("fetched")) => exitCode = 0
    /\ pc # "done" => exitCode = -1

\* a run whose page fetch failed
C7_Witness == FetchFailed /\ exitCode = 1 /\ ~initial.dirExists

(***************************************************************************)
(* C8, as stated: the phases follow the linear order and, in every         *)
(* non-dry-run invocation whose fetch succeeds, the directory is ensured   *)
(* before the downloading phase and before done, for any number N >= 0 of  *)
(* extracted links.                                                        *)
(***************************************************************************)
C8_DirectoryReadyForAnyN ==
    /\ LinearOrder
    /\ Visited("downloading") => Visited("directory-ready")
    /\ (pc = "done" /\ ~dry_run /\ Visited("fetched"))
          => (Visited("directory-ready") /\ dirExists)

(***************************************************************************)
(* C8, amended: the phases follow the linear order and, in every           *)
(* non-dry-run invocation whose fetch succeeds and extracts N >= 1 links,  *)
(* the directory is ensured before the downloading phase and before done;  *)
(* with no link the run goes from extracted to done and the directory is   *)
(* not touched.                                                            *)
(***************************************************************************)
C8_DirectoryReadyWhenLinks ==
    /\ LinearOrder
    /\ Visited("downloading") => (Visited("directory-ready") /\ dirExists)
    /\ (pc = "done" /\ ~dry_run /\ Visited("fetched") /\ Len(links) >= 1)
          => (Visited("directory-ready") /\ dirExists)
    /\ (pc = "done" /\ Visited("fetched") /\ Len(links) = 0)
          => (~Visited("directory-ready") /\ dirExists = initial.dirExists)

\* a run with links that created the missing directory and ended
C8_Witness ==
    /\ pc = "done"
    /\ ~dry_run
    /\ Len(links) >= 1
    /\ ~initial.dirExists
    /\ dirExists
    /\ Visited("downloading")

(***************************************************************************)
(* C9: the manifest is written at most once, only after every extracted    *)
(* link has been attempted, and exactly when at least one download         *)
(* succeeded; with no successful download the manifest file is neither     *)
(* created nor modified and the run exits 0.                               *)
(***************************************************************************)
C9_WrittenWhenSucceeded ==
    /\ Cardinality({i \in 1..Len(hist) : hist[i] = "manifest-written"}) <= 1
    /\ manifest # initial.manifest => Visited("manifest-written")
    /\ Visited("manifest-written") =>
          /\ Len(attempts) = Len(links)
          /\ Succeeded # {}
          /\ manifest.kind = "written"
    /\ AfterLoop => (Visited("manifest-written") <=> Succeeded # {})
    /\ (pc = "done" /\ Visited("fetched") /\ Succeeded = {}) =>
          /\ manifest = initial.manifest
          /\ exitCode = 0

C9_NotMutatedAfterwards ==
    Visited("manifest-written") => manifest' = manifest

C9_ManifestOnce ==
    [] C9_WrittenWhenSucceeded /\ [][C9_NotMutatedAfterwards]_vars

\* a run that ended with a manifest although one of its transfers failed
C9_Witness ==
    /\ pc = "done"
    /\ Visited("manifest-written")
    /\ Failed # {}
    /\ manifest # initial.manifest

(***************************************************************************)
(* C10: the list extract_links returns is sorted lexicographically and has *)
(* no duplicate, even when a URL is matched several times or by both       *)
(* scans; a page text without a match yields the empty list.               *)
(***************************************************************************)
C10_SortedNoDuplicates ==
    pc = "extracted" =>
        /\ \A i, j \in 1..Len(links) : i < j => StrLess(links[i], links[j])
        /\ Cardinality(Range(links)) = Len(links)
        /\ Range(links) = Range(resolved_matches(html, url))
        /\ (combined_findall(html, 1) = <<>> /\ absolute_findall(html, 1) = <<>>)
              => links = <<>>

\* a URL matched by both scans, returned once, next to another URL
C10_Witness ==
    /\ pc = "extracted"
    /\ Len(links) >= 2
    /\ \E i \in 1..Len(combined_findall(html, 1)) :
       \E j \in 1..Len(absolute_findall(html, 1)) :
           urljoin(url, combined_findall(html, 1)[i])
               = urljoin(url, absolute_findall(html, 1)[j])

====
